---- MODULE Spec2Model ----
(***************************************************************************)
(* Price provider of the indexer (createPriceProvider): the per-chain      *)
(* price cache (prices, shouldRefreshPrices, updatePrices, getPrices), the *)
(* block lookup of getUSDConversionRate and getAllPricesForChain.          *)
(*                                                                         *)
(* Every asynchronous call is an activation record in `calls`; every       *)
(* readPricesFile promise is a record in `loads`.  An activation suspends  *)
(* only at an await and is resumed after the awaited promise has settled.  *)
(***************************************************************************)
EXTENDS Integers, Sequences, FiniteSets, TLC

\* ------------------------------------------------------------------ bounds
NumCallers == 2        \* activations of the public API that may overlap
MaxLoads == 2          \* readPricesFile calls in one behaviour
TickMs == 5000         \* granularity of the wall clock
MaxTicks == 3          \* clock advances in one behaviour
ShortIntervalMs == 5000  \* a configured updateEveryMs other than the default
MaxFileLen == 3        \* observations in a price file (lookup specification)

\* --------------------------------------------------------------- constants
DEFAULT_REFRESH_PRICE_INTERVAL_MS == 10000

\* JavaScript `undefined` for the optional numbers (blockNumber, updateEveryMs)
Undefined == -1

\* ------------------------------------------------------------ input domains
Callers == 1..NumCallers
Chains == {1, 2}

\* addresses are strings, modelled as sequences of characters
LowerChar(ch) ==
  CASE ch = "A" -> "a"
    [] ch = "B" -> "b"
    [] ch = "C" -> "c"
    [] OTHER -> ch

toLowerCase(s) == [i \in DOMAIN s |-> LowerChar(s[i])]

AddrLowerA == <<"a", "a">>
AddrMixedA == <<"A", "a">>
AddrLowerB == <<"b", "b">>
AddrOther == <<"c", "c">>

\* chain.tokens of getChainConfigById(chainId)
ChainTokens(chainId) ==
  IF chainId = 1
  THEN << [address |-> AddrMixedA, decimals |-> 18],
          [address |-> AddrLowerB, decimals |-> 6] >>
  ELSE << [address |-> AddrMixedA, decimals |-> 6] >>

Obs(t, b, p) == [token |-> t, block |-> b, price |-> p]

\* the worked example: two observations of one token
ExampleFile == << Obs(AddrLowerA, 100, 2), Obs(AddrLowerA, 200, 3) >>
MixedFile ==
  << Obs(AddrLowerA, 100, 2), Obs(AddrLowerB, 150, 3), Obs(AddrLowerA, 150, 3),
     Obs(AddrLowerA, 150, 2), Obs(AddrLowerA, 200, 3) >>
StoreFiles == {ExampleFile, MixedFile}

FileTokens == {AddrLowerA, AddrLowerB}
FileBlocks == {100, 200}
FilePrices == {2, 3}
Observations == {Obs(t, b, p) : t \in FileTokens, b \in FileBlocks, p \in FilePrices}
AllFiles == UNION {[1..n -> Observations] : n \in 0..MaxFileLen}

\* per token, blocks are non-decreasing in file order
PerTokenSorted(f) ==
  \A i, j \in 1..Len(f) :
    (i < j /\ f[i].token = f[j].token) => f[i].block <= f[j].block
SortedFiles == {f \in AllFiles : PerTokenSorted(f)}

VARIABLES
  now,            \* wall clock, new Date().getTime()
  updateEveryMs,  \* config.updateEveryMs, Undefined when not configured
  storage,        \* the contents readPricesFile may find on disk
  prices,         \* the cache: chainId -> {lastUpdatedAt, prices: promise}
  loads,          \* the promises returned by readPricesFile, by creation order
  settled,        \* the loads in the order they settled
  calls           \* activations of the public API

vars == <<now, updateEveryMs, storage, prices, loads, settled, calls>>

\* ------------------------------------------------------------ the records
NoOutcome == [kind |-> "none", prices |-> <<>>, decimals |-> 0, load |-> 0]

\* a rejected promise: the error and, for a PriceStore error, the load it is of
Failure(kind, l) == [kind |-> kind, prices |-> <<>>, decimals |-> 0, load |-> l]

\* the quotient n / d of two numbers
Ratio(n, d) == [num |-> n, den |-> d]

\* convertTokenToFiat of tokenMath: the value it returns for its arguments
convertTokenToFiat(tokenAmount, tokenDecimals, tokenPrice, tokenPriceDecimals) ==
  [fn |-> "convertTokenToFiat", amount |-> tokenAmount,
   tokenDecimals |-> tokenDecimals, tokenPrice |-> tokenPrice,
   tokenPriceDecimals |-> tokenPriceDecimals]

\* convertFiatToToken of tokenMath: the value it returns for its arguments
convertFiatToToken(fiatAmount, tokenPrice, tokenPriceDecimals, tokenDecimals) ==
  [fn |-> "convertFiatToToken", amount |-> fiatAmount,
   tokenDecimals |-> tokenDecimals, tokenPrice |-> tokenPrice,
   tokenPriceDecimals |-> tokenPriceDecimals]

\* the { amount, price } a conversion resolves with
Converted(amount, price) ==
  [kind |-> "ok", prices |-> <<>>, decimals |-> 0, load |-> 0,
   amount |-> amount, price |-> price]

\* a fulfilled promise: a list of observations (one observation for a rate)
Success(list, decimals) ==
  [kind |-> "ok", prices |-> list, decimals |-> decimals, load |-> 0]

IdleCall ==
  [op |-> "none", pc |-> "idle", chainId |-> 0, tokenAddress |-> <<>>,
   amount |-> 0, blockNumber |-> Undefined, load |-> 0, issued |-> 0, at |-> 0,
   seen |-> <<>>, seenStatus |-> "none", after |-> {}, outcome |-> NoOutcome]

\* the promise readPricesFile(chainId, storageDir) returns, still pending
NewLoad(chainId, via, c) ==
  [chainId |-> chainId, status |-> "pending", result |-> <<>>,
   startedAt |-> now, via |-> via, by |-> c]

\* ------------------------------------------------------------ the cache
RefreshInterval ==
  IF updateEveryMs = Undefined THEN DEFAULT_REFRESH_PRICE_INTERVAL_MS
  ELSE updateEveryMs

\* faulty variant of shouldRefreshPrices: the comparison is inverted
shouldRefreshPricesInverted(p) == now - p.lastUpdatedAt < RefreshInterval

\* faulty variant of shouldRefreshPrices: an entry exactly as old as the interval counts as stale
shouldRefreshPricesInclusive(p) == now - p.lastUpdatedAt >= RefreshInterval

shouldRefreshPrices(p) == now - p.lastUpdatedAt > RefreshInterval

\* faulty variant of NeedsUpdate: every call reloads
NeedsUpdateAlways(chainId) == chainId \in Chains

\* the condition of getPrices
NeedsUpdate(chainId) ==
  \/ chainId \notin DOMAIN prices
  \/ shouldRefreshPrices(prices[chainId])

\* faulty variant of updatePrices: an existing entry is kept
updatePricesKeep(chainId, l) ==
  [k \in DOMAIN prices \cup {chainId} |->
     IF k \in DOMAIN prices THEN prices[k]
     ELSE [prices |-> l, lastUpdatedAt |-> now]]

\* the cache after updatePrices(chainId) has created load l
updatePrices(chainId, l) ==
  [k \in DOMAIN prices \cup {chainId} |->
     IF k = chainId THEN [prices |-> l, lastUpdatedAt |-> now] ELSE prices[k]]

\* calls are numbered in the order they are made
NextCaller(c) ==
  /\ calls[c].pc = "idle"
  /\ \A d \in Callers : d < c => calls[d].pc # "idle"

\* what a call finds in the cache when it is made (history of the call)
SeenEntry(chainId) ==
  IF chainId \in DOMAIN prices THEN <<prices[chainId]>> ELSE <<>>
SeenStatus(chainId) ==
  IF chainId \in DOMAIN prices THEN loads[prices[chainId].prices].status
  ELSE "none"
\* the calls that have completed (a call made now is sequential to them)
Completed == {d \in Callers : calls[d].pc = "done"}

\* ------------------------------------------------------------ the lookup
\* faulty variant of FindToken: the address is not compared
FindTokenAny(tokens, tokenAddress) == <<tokens[1]>>

\* chain.tokens.find(t => t.address.toLowerCase() === tokenAddress.toLowerCase())
FindToken(tokens, tokenAddress) ==
  LET hits == {i \in 1..Len(tokens) :
                 toLowerCase(tokens[i].address) = toLowerCase(tokenAddress)}
  IN IF hits = {} THEN <<>>
     ELSE <<tokens[CHOOSE i \in hits : \A j \in hits : i <= j]>>

\* faulty variant of FilterToken: the list is not filtered
FilterTokenAll(list, tokenAddress) == list

\* (await getPrices(chainId)).filter(p => p.token === tokenAddress)
FilterToken(list, tokenAddress) ==
  SelectSeq(list, LAMBDA p : p.token = tokenAddress)

Reverse(s) == [i \in 1..Len(s) |-> s[Len(s) + 1 - i]]

\* faulty variant of BlockBefore: the scan accepts the requested block itself
BlockNotAfter(block, blockNumber) == block <= blockNumber

\* the predicate of the in-range scan
BlockBefore(block, blockNumber) == block < blockNumber

\* list.find(p => p.block < blockNumber) ?? null
FindBefore(list, blockNumber) ==
  LET hits == {i \in 1..Len(list) : BlockBefore(list[i].block, blockNumber)}
  IN IF hits = {} THEN <<>>
     ELSE <<list[CHOOSE i \in hits : \A j \in hits : i <= j]>>

\* faulty variant of ClosestPrice: at(0) and at(-1) are exchanged
ClosestPriceEndsSwapped(pricesForToken, blockNumber) ==
  LET firstAvailablePrice == pricesForToken[Len(pricesForToken)]
      lastAvailablePrice == pricesForToken[1]
  IN IF blockNumber = Undefined THEN <<lastAvailablePrice>>
     ELSE IF blockNumber > lastAvailablePrice.block THEN <<lastAvailablePrice>>
     ELSE IF blockNumber < firstAvailablePrice.block THEN <<firstAvailablePrice>>
     ELSE FindBefore(Reverse(pricesForToken), blockNumber)

\* faulty variant of ClosestPrice: no backward extrapolation
ClosestPriceNoBackward(pricesForToken, blockNumber) ==
  LET lastAvailablePrice == pricesForToken[Len(pricesForToken)]
  IN IF blockNumber = Undefined THEN <<lastAvailablePrice>>
     ELSE IF blockNumber > lastAvailablePrice.block THEN <<lastAvailablePrice>>
     ELSE FindBefore(Reverse(pricesForToken), blockNumber)

\* closestPrice of a non-empty pricesForToken; <<>> is null
ClosestPrice(pricesForToken, blockNumber) ==
  LET firstAvailablePrice == pricesForToken[1]
      lastAvailablePrice == pricesForToken[Len(pricesForToken)]
  IN IF blockNumber = Undefined THEN <<lastAvailablePrice>>
     ELSE IF blockNumber > lastAvailablePrice.block THEN <<lastAvailablePrice>>
     ELSE IF blockNumber < firstAvailablePrice.block THEN <<firstAvailablePrice>>
     ELSE FindBefore(Reverse(pricesForToken), blockNumber)

\* the in-range branch of ClosestPrice is the one that reverses
ScanReverses(pricesForToken, blockNumber) ==
  /\ pricesForToken # <<>>
  /\ blockNumber # Undefined
  /\ ~(blockNumber > pricesForToken[Len(pricesForToken)].block)
  /\ ~(blockNumber < pricesForToken[1].block)

\* faulty variant of ListAfterLookup: the scan reverses the cached array
ListAfterLookupInPlace(list, tokenAddress, blockNumber) ==
  IF ScanReverses(FilterToken(list, tokenAddress), blockNumber)
  THEN Reverse(list) ELSE list

\* the array held by the cached promise once a lookup has run on it: filter
\* builds a new array, and it is that array which reverse() changes in place
ListAfterLookup(list, tokenAddress, blockNumber) == list

\* the loads after the lookup of `call` has run on the list of its load
LoadsAfterLookup(call) ==
  IF loads[call.load].status # "resolved" THEN loads
  ELSE [loads EXCEPT ![call.load].result =
          ListAfterLookup(@, call.tokenAddress, call.blockNumber)]

\* getUSDConversionRate after getPrices has delivered `list`
ResolveRate(list, chainId, tokenAddress, blockNumber) ==
  LET token == FindToken(ChainTokens(chainId), tokenAddress)
      pricesForToken == FilterToken(list, tokenAddress)
  IN IF pricesForToken = <<>> THEN Failure("NoPricesFoundError", 0)
     ELSE LET closestPrice == ClosestPrice(pricesForToken, blockNumber)
          IN IF closestPrice = <<>> THEN Failure("PriceNotFoundError", 0)
             ELSE Success(closestPrice, token[1].decimals)

\* ------------------------------------------------------------ operations
\* getUSDConversionRate up to its first suspension: the token check, then the
\* synchronous part of getPrices (and of updatePrices when it is called);
\* op is the public operation that was called, which for a conversion has
\* called getUSDConversionRate at once
CallRate(c, op, chainId, tokenAddress, amount, blockNumber) ==
  /\ NextCaller(c)
  /\ LET token == FindToken(ChainTokens(chainId), tokenAddress)
         l == Len(loads) + 1
         made == [IdleCall EXCEPT !.op = op,
                                  !.chainId = chainId,
                                  !.tokenAddress = tokenAddress,
                                  !.amount = amount,
                                  !.blockNumber = blockNumber,
                                  !.at = now,
                                  !.seen = SeenEntry(chainId),
                                  !.seenStatus = SeenStatus(chainId),
                                  !.after = Completed]
     IN IF token = <<>>
        THEN /\ calls' = [calls EXCEPT ![c] =
                  [made EXCEPT !.pc = "done",
                               !.outcome = Failure("UnknownTokenError", 0)]]
             /\ UNCHANGED <<prices, loads>>
        ELSE IF NeedsUpdate(chainId)
        THEN /\ Len(loads) < MaxLoads
             /\ loads' = Append(loads, NewLoad(chainId, "updatePrices", c))
             /\ prices' = updatePrices(chainId, l)
             /\ calls' = [calls EXCEPT ![c] =
                  [made EXCEPT !.pc = "awaitUpdate", !.load = l, !.issued = l]]
        ELSE /\ calls' = [calls EXCEPT ![c] =
                  [made EXCEPT !.pc = "awaitPrices",
                               !.load = prices[chainId].prices]]
             /\ UNCHANGED <<prices, loads>>
  /\ UNCHANGED <<now, updateEveryMs, storage, settled>>

GetUSDConversionRate(c, chainId, tokenAddress, blockNumber) ==
  CallRate(c, "getUSDConversionRate", chainId, tokenAddress, 0, blockNumber)

ConvertToUSD(c, chainId, token, amount, blockNumber) ==
  CallRate(c, "convertToUSD", chainId, token, amount, blockNumber)

ConvertFromUSD(c, chainId, token, amountInUSD, blockNumber) ==
  CallRate(c, "convertFromUSD", chainId, token, amountInUSD, blockNumber)

\* getAllPricesForChain up to its suspension: it reads the price file itself
GetAllPricesForChain(c, chainId) ==
  /\ NextCaller(c)
  /\ Len(loads) < MaxLoads
  /\ loads' = Append(loads, NewLoad(chainId, "getAllPricesForChain", c))
  /\ calls' = [calls EXCEPT ![c] =
       [IdleCall EXCEPT !.op = "getAllPricesForChain",
                        !.pc = "awaitPrices",
                        !.chainId = chainId,
                        !.at = now,
                        !.seen = SeenEntry(chainId),
                        !.seenStatus = SeenStatus(chainId),
                        !.after = Completed,
                        !.load = Len(loads) + 1,
                        !.issued = Len(loads) + 1]]
  /\ UNCHANGED <<now, updateEveryMs, storage, prices, settled>>

\* readPricesFile fulfils its promise with the file it found
ResolveLoad(l) ==
  /\ l \in 1..Len(loads)
  /\ loads[l].status = "pending"
  /\ \E file \in storage :
       loads' = [loads EXCEPT ![l].status = "resolved", ![l].result = file]
  /\ settled' = Append(settled, l)
  /\ UNCHANGED <<now, updateEveryMs, storage, prices, calls>>

\* readPricesFile rejects its promise (an I/O failure)
RejectLoad(l) ==
  /\ l \in 1..Len(loads)
  /\ loads[l].status = "pending"
  /\ loads' = [loads EXCEPT ![l].status = "rejected"]
  /\ settled' = Append(settled, l)
  /\ UNCHANGED <<now, updateEveryMs, storage, prices, calls>>

\* faulty variant of AfterUpdate: the rejection of the awaited reload is swallowed
AfterUpdateSwallowed(call) ==
  [call EXCEPT !.pc = "awaitPrices", !.load = prices[call.chainId].prices]

\* getPrices after `await updatePrices(chainId)`: the rejection is thrown,
\* otherwise the promise of the entry that is in the cache now is returned
AfterUpdate(call) ==
  IF loads[call.load].status = "rejected"
  THEN [call EXCEPT !.pc = "done", !.outcome = Failure("LoadError", call.load)]
  ELSE [call EXCEPT !.pc = "awaitPrices", !.load = prices[call.chainId].prices]

ResumeGetPrices(c) ==
  /\ calls[c].pc = "awaitUpdate"
  /\ loads[calls[c].load].status # "pending"
  /\ calls' = [calls EXCEPT ![c] = AfterUpdate(calls[c])]
  /\ UNCHANGED <<now, updateEveryMs, storage, prices, loads, settled>>

\* getUSDConversionRate after `await getPrices(chainId)`
ReturnConversionRate(c) ==
  /\ calls[c].pc = "awaitPrices"
  /\ calls[c].op = "getUSDConversionRate"
  /\ loads[calls[c].load].status # "pending"
  /\ LET call == calls[c]
         load == loads[call.load]
         outcome ==
           IF load.status = "rejected" THEN Failure("LoadError", call.load)
           ELSE ResolveRate(load.result, call.chainId, call.tokenAddress,
                            call.blockNumber)
     IN calls' = [calls EXCEPT ![c] =
                    [call EXCEPT !.pc = "done", !.outcome = outcome]]
  /\ loads' = LoadsAfterLookup(calls[c])
  /\ UNCHANGED <<now, updateEveryMs, storage, prices, settled>>

\* what `await getUSDConversionRate(chainId, token, blockNumber)` delivers to
\* a conversion once the awaited load has settled
ClosestPriceOf(call) ==
  IF loads[call.load].status = "rejected" THEN Failure("LoadError", call.load)
  ELSE ResolveRate(loads[call.load].result, call.chainId, call.tokenAddress,
                   call.blockNumber)

\* faulty variant of FromUSDPrice: the price is returned as it is
FromUSDPriceVerbatim(price) == Ratio(price, 1)

\* the price convertFromUSD returns: 1 / closestPrice.price
FromUSDPrice(price) == Ratio(1, price)

\* convertToUSD after `await getUSDConversionRate(...)`
ReturnToUSD(c) ==
  /\ calls[c].pc = "awaitPrices"
  /\ calls[c].op = "convertToUSD"
  /\ loads[calls[c].load].status # "pending"
  /\ LET call == calls[c]
         closestPrice == ClosestPriceOf(call)
         outcome ==
           IF closestPrice.kind # "ok" THEN closestPrice
           ELSE Converted(
                  convertTokenToFiat(call.amount, closestPrice.decimals,
                                     closestPrice.prices[1].price, 8),
                  closestPrice.prices[1].price)
     IN calls' = [calls EXCEPT ![c] =
                    [call EXCEPT !.pc = "done", !.outcome = outcome]]
  /\ loads' = LoadsAfterLookup(calls[c])
  /\ UNCHANGED <<now, updateEveryMs, storage, prices, settled>>

\* convertFromUSD after `await getUSDConversionRate(...)`
ReturnFromUSD(c) ==
  /\ calls[c].pc = "awaitPrices"
  /\ calls[c].op = "convertFromUSD"
  /\ loads[calls[c].load].status # "pending"
  /\ LET call == calls[c]
         closestPrice == ClosestPriceOf(call)
         outcome ==
           IF closestPrice.kind # "ok" THEN closestPrice
           ELSE Converted(
                  convertFiatToToken(call.amount, closestPrice.prices[1].price,
                                     8, closestPrice.decimals),
                  FromUSDPrice(closestPrice.prices[1].price))
     IN calls' = [calls EXCEPT ![c] =
                    [call EXCEPT !.pc = "done", !.outcome = outcome]]
  /\ loads' = LoadsAfterLookup(calls[c])
  /\ UNCHANGED <<now, updateEveryMs, storage, prices, settled>>

\* the promise of getAllPricesForChain settles as that of readPricesFile
ReturnAllPrices(c) ==
  /\ calls[c].pc = "awaitPrices"
  /\ calls[c].op = "getAllPricesForChain"
  /\ loads[calls[c].load].status # "pending"
  /\ LET call == calls[c]
         load == loads[call.load]
         outcome ==
           IF load.status = "rejected" THEN Failure("LoadError", call.load)
           ELSE Success(load.result, 0)
     IN calls' = [calls EXCEPT ![c] =
                    [call EXCEPT !.pc = "done", !.outcome = outcome]]
  /\ UNCHANGED <<now, updateEveryMs, storage, prices, loads, settled>>

\* time passes
Tick ==
  /\ now < MaxTicks * TickMs
  /\ now' = now + TickMs
  /\ UNCHANGED <<updateEveryMs, storage, prices, loads, settled, calls>>

\* ------------------------------------------------------------ specifications
EmptyCache == [k \in {} |-> 0]

\* the cache under overlapping calls
CacheAddrs == {AddrLowerA, AddrMixedA, AddrOther}
CacheBlocks == {Undefined, 150}
ConvertAddrs == {AddrLowerA, AddrOther}
ConvertBlocks == {150}
ConvertAmounts == {6}

Init ==
  /\ now = 0
  /\ updateEveryMs \in {Undefined, ShortIntervalMs}
  /\ storage = StoreFiles
  /\ prices = EmptyCache
  /\ loads = <<>>
  /\ settled = <<>>
  /\ calls = [c \in Callers |-> IdleCall]

Next ==
  \/ \E c \in Callers, chainId \in Chains, a \in CacheAddrs, b \in CacheBlocks :
       GetUSDConversionRate(c, chainId, a, b)
  \/ \E c \in Callers, chainId \in Chains, a \in ConvertAddrs,
          n \in ConvertAmounts, b \in ConvertBlocks :
       ConvertToUSD(c, chainId, a, n, b)
  \/ \E c \in Callers, chainId \in Chains, a \in ConvertAddrs,
          n \in ConvertAmounts, b \in ConvertBlocks :
       ConvertFromUSD(c, chainId, a, n, b)
  \/ \E c \in Callers, chainId \in Chains : GetAllPricesForChain(c, chainId)
  \/ \E l \in 1..MaxLoads : ResolveLoad(l)
  \/ \E l \in 1..MaxLoads : RejectLoad(l)
  \/ \E c \in Callers : ResumeGetPrices(c)
  \/ \E c \in Callers : ReturnConversionRate(c)
  \/ \E c \in Callers : ReturnToUSD(c)
  \/ \E c \in Callers : ReturnFromUSD(c)
  \/ \E c \in Callers : ReturnAllPrices(c)
  \/ Tick

Spec == Init /\ [][Next]_vars

\* the lookup over every sorted price file: one caller, one chain
LookupAddrs == {AddrLowerA, AddrMixedA, AddrLowerB, AddrOther}
LookupBlocks == {Undefined, 0, 50, 99, 100, 150, 200, 201, 250}

InitLookup ==
  /\ now = 0
  /\ updateEveryMs = Undefined
  /\ storage \in {{file} : file \in SortedFiles}
  /\ prices = EmptyCache
  /\ loads = <<>>
  /\ settled = <<>>
  /\ calls = [c \in Callers |-> IdleCall]

NextLookup ==
  \/ \E a \in LookupAddrs, b \in LookupBlocks : GetUSDConversionRate(1, 1, a, b)
  \/ \E a \in LookupAddrs, n \in ConvertAmounts, b \in LookupBlocks :
       ConvertToUSD(1, 1, a, n, b)
  \/ \E a \in LookupAddrs, n \in ConvertAmounts, b \in LookupBlocks :
       ConvertFromUSD(1, 1, a, n, b)
  \/ ResolveLoad(1)
  \/ ResumeGetPrices(1)
  \/ ReturnConversionRate(1)
  \/ ReturnToUSD(1)
  \/ ReturnFromUSD(1)

SpecLookup == InitLookup /\ [][NextLookup]_vars

\* ------------------------------------------------------------ properties
RateCalls == {c \in Callers : calls[c].op = "getUSDConversionRate"}

\* the calls of getUSDConversionRate that went on to getPrices
PriceCalls == {c \in RateCalls : calls[c].outcome.kind # "UnknownTokenError"}

AllPricesCalls == {c \in Callers : calls[c].op = "getAllPricesForChain"}

\* age of the entry a call found, at the time of the call
SeenAge(c) == calls[c].at - calls[c].seen[1].lastUpdatedAt

\* the reloads made through the cache for a chain, in order of initiation
CacheLoads(chainId) ==
  {l \in 1..Len(loads) :
     loads[l].chainId = chainId /\ loads[l].via = "updatePrices"}

SettledAt(l) == CHOOSE i \in 1..Len(settled) : settled[i] = l

\* the per-token list a completed rate call searched
SearchedList(c) ==
  FilterToken(loads[calls[c].load].result, calls[c].tokenAddress)

\* the rate calls that completed on a fulfilled load
ServedCalls ==
  {c \in PriceCalls :
     calls[c].pc = "done" /\ loads[calls[c].load].status = "resolved"}

\* C1: a getAllPricesForChain call made after an earlier getAllPricesForChain
\* call for the same chain has loaded and completed, and within the refresh
\* interval of it, is served from the cache: it triggers no PriceStore load.
C1_AllPricesServedFromCache ==
  \A c1, c2 \in AllPricesCalls :
    ( /\ c1 \in calls[c2].after
      /\ calls[c1].chainId = calls[c2].chainId
      /\ calls[c1].issued # 0
      /\ calls[c2].at - calls[c1].at <= RefreshInterval )
    => calls[c2].issued = 0

\* C2: a getPrices call that finds no entry for the chain, or one whose age
\* strictly exceeds the refresh interval, issues exactly one load and replaces
\* the entry by that load stamped with the call time; otherwise it issues no
\* load, leaves the cache unchanged and returns the cached promise.
C2_GetPricesContract ==
  [][\A c \in Callers :
       ( /\ calls[c].pc = "idle"
         /\ calls'[c].op = "getUSDConversionRate"
         /\ calls'[c].outcome.kind # "UnknownTokenError" )
       => LET chainId == calls'[c].chainId
          IN IF \/ chainId \notin DOMAIN prices
                \/ now - prices[chainId].lastUpdatedAt > RefreshInterval
             THEN /\ Len(loads') = Len(loads) + 1
                  /\ \A l \in 1..Len(loads) : loads'[l] = loads[l]
                  /\ loads'[Len(loads')].chainId = chainId
                  /\ loads'[Len(loads')].status = "pending"
                  /\ DOMAIN prices' = DOMAIN prices \cup {chainId}
                  /\ prices'[chainId] =
                       [prices |-> Len(loads'), lastUpdatedAt |-> calls'[c].at]
                  /\ calls'[c].at = now
                  /\ \A k \in DOMAIN prices \ {chainId} : prices'[k] = prices[k]
             ELSE /\ loads' = loads
                  /\ prices' = prices
                  /\ calls'[c].load = prices[chainId].prices
    ]_vars

\* C2 witness: one call found no entry and reloaded; a later call found that
\* entry exactly as old as the interval and was served from it
C2_Witness ==
  \E c1, c2 \in PriceCalls :
    /\ calls[c1].seen = <<>> /\ calls[c1].issued # 0
    /\ calls[c2].seen # <<>> /\ SeenAge(c2) = RefreshInterval
    /\ calls[c2].issued = 0 /\ calls[c2].load = calls[c1].issued
    /\ calls[c2].pc = "done" /\ calls[c2].outcome.kind = "ok"

\* C3 (as claimed): every getPrices caller that finds the chain's entry while
\* its reload is pending issues no load of its own.
C3_PendingEntryAlwaysShared ==
  \A c \in PriceCalls :
    calls[c].seenStatus = "pending" => calls[c].issued = 0

\* C3 (amended): a getPrices caller that finds the chain's entry pending and
\* not older than the refresh interval issues no load, is bound to that
\* reload and completes with that reload's outcome.
C3_FreshPendingEntryShared ==
  \A c \in PriceCalls :
    (calls[c].seenStatus = "pending" /\ SeenAge(c) <= RefreshInterval)
    => LET l == calls[c].seen[1].prices
       IN /\ calls[c].issued = 0
          /\ calls[c].load = l
          /\ calls[c].pc = "done" =>
               IF loads[l].status = "rejected"
               THEN calls[c].outcome = Failure("LoadError", l)
               ELSE /\ loads[l].status = "resolved"
                    /\ \A i \in 1..Len(calls[c].outcome.prices) :
                         \E j \in 1..Len(loads[l].result) :
                           calls[c].outcome.prices[i] = loads[l].result[j]

\* C3 witness: a caller joined another caller's pending reload and got a rate
C3_Witness ==
  \E c \in PriceCalls :
    /\ calls[c].seenStatus = "pending" /\ SeenAge(c) <= RefreshInterval
    /\ loads[calls[c].load].by # c
    /\ calls[c].pc = "done" /\ calls[c].outcome.kind = "ok"

\* C4 (as claimed): once no reload of a chain is pending, the chain's entry
\* holds the reload that completed last.
C4_LastCompletedWins ==
  \A chainId \in DOMAIN prices :
    (\A l \in CacheLoads(chainId) : loads[l].status # "pending")
    => \A l \in CacheLoads(chainId) :
         SettledAt(l) <= SettledAt(prices[chainId].prices)

\* C4 (amended): the chain's entry holds the reload that was initiated last,
\* in whatever order the reloads complete.
C4_LastInitiatedWins ==
  \A chainId \in DOMAIN prices :
    /\ prices[chainId].prices \in CacheLoads(chainId)
    /\ \A l \in CacheLoads(chainId) : l <= prices[chainId].prices

\* C4 witness: two overlapping reloads of a chain completed in the reverse of
\* their initiation order
C4_Witness ==
  \E chainId \in DOMAIN prices :
    \E l1, l2 \in CacheLoads(chainId) :
      /\ l1 < l2
      /\ loads[l1].status # "pending" /\ loads[l2].status # "pending"
      /\ SettledAt(l2) < SettledAt(l1)
      /\ prices[chainId].prices = l2

\* C5: a getPrices call that finds the entry of a failed load retries, i.e.
\* issues a new PriceStore load.
C5_FailedEntryRetried ==
  \A c \in PriceCalls :
    calls[c].seenStatus = "rejected" => calls[c].issued # 0

\* the reload a getPrices caller shares: the one it initiated, or the pending
\* one it joined (0 when neither)
SharedLoad(c) ==
  IF calls[c].issued # 0 THEN calls[c].issued
  ELSE IF calls[c].seenStatus = "pending" THEN calls[c].seen[1].prices
  ELSE 0

\* C6: when a reload fails, the caller that initiated it and every caller
\* that joined it while pending complete with that load's error, and no call
\* holds a result before it completes.
C6_FailurePropagates ==
  \A c \in Callers :
    /\ calls[c].pc # "done" => calls[c].outcome = NoOutcome
    /\ ( /\ c \in PriceCalls
         /\ calls[c].pc = "done"
         /\ SharedLoad(c) # 0
         /\ loads[SharedLoad(c)].status = "rejected" )
       => calls[c].outcome = Failure("LoadError", SharedLoad(c))

\* C6 witness: the initiator and a joiner of one failed reload both failed
C6_Witness ==
  \E c1, c2 \in PriceCalls :
    /\ calls[c1].issued # 0 /\ calls[c2].issued = 0
    /\ SharedLoad(c2) = calls[c1].issued
    /\ loads[calls[c1].issued].status = "rejected"
    /\ calls[c1].pc = "done" /\ calls[c2].pc = "done"
    /\ calls[c1].outcome.kind = "LoadError"
    /\ calls[c2].outcome.kind = "LoadError"

\* C7: a request at exactly the earliest recorded block of the token returns
\* the earliest observation (worked example: block 100 gives price 2).
C7_EarliestBlockResolves ==
  \A c \in ServedCalls :
    ( /\ SearchedList(c) # <<>>
      /\ calls[c].blockNumber = SearchedList(c)[1].block )
    => /\ calls[c].outcome.kind = "ok"
       /\ calls[c].outcome.prices[1].price = SearchedList(c)[1].price

\* C8: on a non-empty per-token list that is non-decreasing in block, no
\* blockNumber makes getUSDConversionRate fail with 'Price not found'.
C8_PriceNotFoundUnreachable ==
  \A c \in ServedCalls :
    (SearchedList(c) # <<>> /\ PerTokenSorted(SearchedList(c)))
    => calls[c].outcome.kind # "PriceNotFoundError"

\* C9: two calls whose addresses differ only in letter case, for the same
\* chain and block on the same loaded list, return the same observation and
\* decimals; an address of no configured token fails with UnknownTokenError.
C9_CaseInsensitiveRate ==
  /\ \A c1, c2 \in ServedCalls :
       ( /\ calls[c1].chainId = calls[c2].chainId
         /\ calls[c1].blockNumber = calls[c2].blockNumber
         /\ calls[c1].load = calls[c2].load
         /\ toLowerCase(calls[c1].tokenAddress)
              = toLowerCase(calls[c2].tokenAddress) )
       => calls[c1].outcome = calls[c2].outcome
  /\ \A c \in RateCalls :
       (\A i \in 1..Len(ChainTokens(calls[c].chainId)) :
          toLowerCase(ChainTokens(calls[c].chainId)[i].address)
            # toLowerCase(calls[c].tokenAddress))
       => calls[c].outcome.kind = "UnknownTokenError"

\* C10: for a sorted per-token list and B_min < blockNumber <= B_max the
\* call returns the last observation in list order whose block is strictly
\* less than blockNumber; its block is the greatest such block and it is
\* never an observation recorded at blockNumber.
C10_StrictlyLessThan ==
  \A c \in ServedCalls :
    LET list == SearchedList(c)
        blockNumber == calls[c].blockNumber
    IN ( /\ list # <<>>
         /\ blockNumber # Undefined
         /\ list[1].block < blockNumber
         /\ blockNumber <= list[Len(list)].block )
       => /\ calls[c].outcome.kind = "ok"
          /\ calls[c].outcome.prices[1].block # blockNumber
          /\ \E k \in 1..Len(list) :
               /\ calls[c].outcome.prices = <<list[k]>>
               /\ list[k].block < blockNumber
               /\ \A j \in 1..Len(list) :
                    /\ j > k => list[j].block >= blockNumber
                    /\ list[j].block < blockNumber
                         => list[j].block <= list[k].block

\* C10 witness: the list holds an observation at exactly blockNumber and an
\* older one was returned
C10_Witness ==
  \E c \in ServedCalls :
    /\ SearchedList(c) # <<>>
    /\ SearchedList(c)[1].block < calls[c].blockNumber
    /\ \E j \in 1..Len(SearchedList(c)) :
         SearchedList(c)[j].block = calls[c].blockNumber
    /\ calls[c].outcome.kind = "ok"
    /\ calls[c].outcome.prices[1].block < calls[c].blockNumber

\* C11: with blockNumber omitted the call returns the last observation of the
\* token, which has the highest block; with blockNumber greater than that
\* block (B_max + 1 included) it returns the same observation.
C11_ForwardExtrapolation ==
  \A c \in ServedCalls :
    LET list == SearchedList(c)
        blockNumber == calls[c].blockNumber
    IN ( /\ list # <<>>
         /\ \/ blockNumber = Undefined
            \/ blockNumber > list[Len(list)].block )
       => /\ calls[c].outcome.kind = "ok"
          /\ calls[c].outcome.prices = <<list[Len(list)]>>
          /\ \A j \in 1..Len(list) :
               list[j].block <= calls[c].outcome.prices[1].block

\* C11 witness: a list of two different observations was asked for the block
\* after its last one and gave the last observation
C11_Witness ==
  \E c \in ServedCalls :
    /\ Len(SearchedList(c)) >= 2
    /\ SearchedList(c)[1] # SearchedList(c)[Len(SearchedList(c))]
    /\ calls[c].blockNumber = SearchedList(c)[Len(SearchedList(c))].block + 1
    /\ calls[c].outcome.kind = "ok"
    /\ calls[c].outcome.prices = <<SearchedList(c)[Len(SearchedList(c))]>>

\* C12: with blockNumber strictly less than the earliest recorded block
\* (0 and B_min - 1 included) the call returns the earliest observation.
C12_BackwardExtrapolation ==
  \A c \in ServedCalls :
    LET list == SearchedList(c)
        blockNumber == calls[c].blockNumber
    IN ( /\ list # <<>>
         /\ blockNumber # Undefined
         /\ blockNumber < list[1].block )
       => /\ calls[c].outcome.kind = "ok"
          /\ calls[c].outcome.prices = <<list[1]>>
          /\ \A j \in 1..Len(list) :
               calls[c].outcome.prices[1].block <= list[j].block

\* C12 witness: a list of two different observations was asked for the block
\* before its first one and gave the first observation
C12_Witness ==
  \E c \in ServedCalls :
    /\ Len(SearchedList(c)) >= 2
    /\ SearchedList(c)[1] # SearchedList(c)[Len(SearchedList(c))]
    /\ calls[c].blockNumber = SearchedList(c)[1].block - 1
    /\ calls[c].outcome.kind = "ok"
    /\ calls[c].outcome.prices = <<SearchedList(c)[1]>>

\* the observations of a list recorded for an address, in any letter case
RecordedFor(list, tokenAddress) ==
  {i \in 1..Len(list) :
     toLowerCase(list[i].token) = toLowerCase(tokenAddress)}

\* C13: a call for a configured token with no recorded observation on the
\* chain fails with the 'No prices found' error, which is neither the
\* unknown-token error nor the 'Price not found' error, for every blockNumber.
C13_NoPricesFound ==
  \A c \in Callers :
    ( /\ calls[c].op \in {"getUSDConversionRate", "convertToUSD", "convertFromUSD"}
      /\ calls[c].pc = "done"
      /\ FindToken(ChainTokens(calls[c].chainId), calls[c].tokenAddress) # <<>>
      /\ loads[calls[c].load].status = "resolved"
      /\ RecordedFor(loads[calls[c].load].result, calls[c].tokenAddress) = {} )
    => /\ calls[c].outcome.kind = "NoPricesFoundError"
       /\ calls[c].outcome.kind \notin {"UnknownTokenError", "PriceNotFoundError"}
       /\ calls[c].outcome.prices = <<>>

\* C13 witness: the file holds observations, none of them for the configured
\* token asked for at a given block, and the call failed with 'No prices found'
C13_Witness ==
  \E c \in Callers :
    /\ calls[c].op = "convertFromUSD"
    /\ calls[c].pc = "done"
    /\ FindToken(ChainTokens(calls[c].chainId), calls[c].tokenAddress) # <<>>
    /\ loads[calls[c].load].status = "resolved"
    /\ loads[calls[c].load].result # <<>>
    /\ RecordedFor(loads[calls[c].load].result, calls[c].tokenAddress) = {}
    /\ calls[c].blockNumber # Undefined
    /\ calls[c].outcome.kind = "NoPricesFoundError"

\* the completed calls of one conversion operation
ConversionCalls(op) ==
  {c \in Callers : calls[c].op = op /\ calls[c].pc = "done"}

\* C14: for the same chain, token and blockNumber on the same loaded list,
\* convertToUSD returns the price of an observation of that token verbatim
\* and convertFromUSD returns its reciprocal, so
\* convertFromUSD(...).price = 1 / convertToUSD(...).price; the two either
\* both succeed or both fail.
C14_InverseRate ==
  \A c1 \in ConversionCalls("convertToUSD") :
    \A c2 \in ConversionCalls("convertFromUSD") :
      ( /\ calls[c1].chainId = calls[c2].chainId
        /\ calls[c1].tokenAddress = calls[c2].tokenAddress
        /\ calls[c1].blockNumber = calls[c2].blockNumber
        /\ calls[c1].load = calls[c2].load )
      => /\ calls[c1].outcome.kind = calls[c2].outcome.kind
         /\ calls[c1].outcome.kind = "ok" =>
              /\ calls[c2].outcome.price = Ratio(1, calls[c1].outcome.price)
              /\ \E i \in 1..Len(loads[calls[c1].load].result) :
                   /\ loads[calls[c1].load].result[i].token
                        = calls[c1].tokenAddress
                   /\ loads[calls[c1].load].result[i].price
                        = calls[c1].outcome.price

\* C14 witness: a convertToUSD and a convertFromUSD call for the same token
\* and block were served by the same load and both succeeded
C14_Witness ==
  \E c1 \in ConversionCalls("convertToUSD") :
    \E c2 \in ConversionCalls("convertFromUSD") :
      /\ calls[c1].chainId = calls[c2].chainId
      /\ calls[c1].tokenAddress = calls[c2].tokenAddress
      /\ calls[c1].blockNumber = calls[c2].blockNumber
      /\ calls[c1].load = calls[c2].load
      /\ calls[c1].outcome.kind = "ok" /\ calls[c2].outcome.kind = "ok"
      /\ calls[c2].outcome.price = Ratio(1, calls[c1].outcome.price)

LookupOps == {"getUSDConversionRate", "convertToUSD", "convertFromUSD"}

\* two completed calls with the same arguments on the same load have the
\* same outcome
RepeatedCallsAgree ==
  \A c1, c2 \in Callers :
    ( /\ calls[c1].pc = "done" /\ calls[c2].pc = "done"
      /\ calls[c1].op \in LookupOps
      /\ calls[c1].op = calls[c2].op
      /\ calls[c1].chainId = calls[c2].chainId
      /\ calls[c1].tokenAddress = calls[c2].tokenAddress
      /\ calls[c1].amount = calls[c2].amount
      /\ calls[c1].blockNumber = calls[c2].blockNumber
      /\ calls[c1].load = calls[c2].load )
    => calls[c1].outcome = calls[c2].outcome

\* C15: the lookup of a getUSDConversionRate / convertToUSD / convertFromUSD
\* call, and any step of such a call that starts no reload, leaves the cache
\* entries and every loaded list (order and contents) unchanged; repeating a
\* call with the same arguments on the same list returns the same result.
C15_LookupsLeaveCache ==
  [][ /\ \A c \in Callers :
           ( /\ calls'[c] # calls[c]
             /\ calls'[c].op \in LookupOps
             /\ Len(loads') = Len(loads) )
           => prices' = prices /\ loads' = loads
      /\ RepeatedCallsAgree'
    ]_vars

\* C15 witness: two calls with the same arguments ran the reversing in-range
\* scan on the same cached list, which is still in file order
C15_Witness ==
  \E c1, c2 \in ServedCalls :
    /\ c1 # c2
    /\ calls[c1].chainId = calls[c2].chainId
    /\ calls[c1].tokenAddress = calls[c2].tokenAddress
    /\ calls[c1].blockNumber = calls[c2].blockNumber
    /\ calls[c1].load = calls[c2].load
    /\ ScanReverses(SearchedList(c1), calls[c1].blockNumber)
    /\ Len(SearchedList(c1)) >= 2
    /\ calls[c1].outcome.kind = "ok"
    /\ calls[c1].outcome = calls[c2].outcome
    /\ loads[calls[c1].load].result \in StoreFiles

\* the address is that of a token configured for the chain, in any letter case
Configured(chainId, tokenAddress) ==
  \E i \in 1..Len(ChainTokens(chainId)) :
    toLowerCase(ChainTokens(chainId)[i].address) = toLowerCase(tokenAddress)

\* C16: a getUSDConversionRate / convertToUSD / convertFromUSD call whose
\* token is not configured for the chain fails with UnknownTokenError in the
\* step that makes the call, issues no PriceStore load and leaves every
\* chain's cache entry unchanged, whatever the state of that chain's entry.
C16_UnknownTokenBeforeCache ==
  [][\A c \in Callers :
       ( /\ calls[c].pc = "idle"
         /\ calls'[c].pc # "idle"
         /\ calls'[c].op \in LookupOps
         /\ ~Configured(calls'[c].chainId, calls'[c].tokenAddress) )
       => /\ calls'[c].pc = "done"
          /\ calls'[c].outcome = Failure("UnknownTokenError", 0)
          /\ calls'[c].issued = 0
          /\ loads' = loads
          /\ prices' = prices
    ]_vars

\* C16 witness: a conversion for an unconfigured token was made while the
\* chain's entry was stale, failed, and the stale entry is still in the cache
C16_Witness ==
  \E c \in Callers :
    /\ calls[c].op \in {"convertToUSD", "convertFromUSD"}
    /\ ~Configured(calls[c].chainId, calls[c].tokenAddress)
    /\ calls[c].pc = "done"
    /\ calls[c].outcome.kind = "UnknownTokenError"
    /\ calls[c].seen # <<>> /\ SeenAge(c) > RefreshInterval
    /\ prices[calls[c].chainId] = calls[c].seen[1]

\* C17: any two PriceStore loads initiated through the cache for the same
\* chain are separated by more than the refresh interval.
C17_NoRedundantReloads ==
  \A chainId \in Chains :
    \A l1, l2 \in CacheLoads(chainId) :
      l1 < l2 => loads[l2].startedAt - loads[l1].startedAt > RefreshInterval

\* C17 witness: a call found the chain's reload still pending and older than
\* the interval, and started the chain's second reload
C17_Witness ==
  \E chainId \in Chains :
    /\ Cardinality(CacheLoads(chainId)) >= 2
    /\ \E c \in PriceCalls :
         /\ calls[c].chainId = chainId
         /\ calls[c].seenStatus = "pending"
         /\ calls[c].issued \in CacheLoads(chainId)
         /\ loads[calls[c].issued].startedAt
              - loads[calls[c].seen[1].prices].startedAt > RefreshInterval

\* the calls that received a list from getPrices and completed with a result
AnsweredCalls ==
  {c \in Callers :
     /\ calls[c].op \in LookupOps
     /\ calls[c].pc = "done"
     /\ calls[c].outcome.kind \notin {"UnknownTokenError", "LoadError"}}

\* C18: the list getPrices(chainId) returns to a call made at time t is the
\* result of a load made through the cache for that chainId and initiated at
\* a time >= t - refresh interval, also when the call's own reload was
\* superseded while it was suspended.
C18_FreshAndIsolated ==
  \A c \in AnsweredCalls :
    LET l == calls[c].load
    IN /\ l \in CacheLoads(calls[c].chainId)
       /\ loads[l].status = "resolved"
       /\ loads[l].startedAt >= calls[c].at - RefreshInterval
       /\ (calls[c].op # "getUSDConversionRate" /\ calls[c].outcome.kind = "ok")
          => \E j \in 1..Len(loads[l].result) :
               calls[c].outcome.amount.tokenPrice = loads[l].result[j].price
       /\ \A i \in 1..Len(calls[c].outcome.prices) :
            \E j \in 1..Len(loads[l].result) :
              calls[c].outcome.prices[i] = loads[l].result[j]

\* C18 witness: a call reloaded, was superseded by a later reload of the
\* same chain while suspended, and was answered from the later one
C18_Witness ==
  \E c \in AnsweredCalls :
    /\ calls[c].issued # 0
    /\ calls[c].load # calls[c].issued
    /\ calls[c].load \in CacheLoads(calls[c].chainId)
    /\ calls[c].outcome.kind = "ok"

====
